---------------------------- MODULE Spec2Model ----------------------------
(***************************************************************************)
(* The choseong word game of GameView.tsx and the Hangul library of        *)
(* lib/hangul.ts as a state machine.                                       *)
(*                                                                         *)
(* A JavaScript string is a sequence of UTF-16 code units (naturals); all  *)
(* the characters used here are in the basic plane, so a code unit is a    *)
(* code point.  similarityScore returns the operands of its subtraction,    *)
(* as [num, den] for 1 - (den - num) / den; toPercent rounds them the way   *)
(* the doubles of the program do.                                          *)
(***************************************************************************)
EXTENDS Integers, Sequences, FiniteSets, TLC

VARIABLES
  store,        \* window.localStorage: the three keys of GameView.tsx:47-49
  todayKey,     \* GameView.tsx:131
  gameMode,     \* GameView.tsx:134
  currentEntry, \* GameView.tsx:142
  guesses,      \* GameView.tsx:145
  inputValue,   \* GameView.tsx:146
  status,       \* GameView.tsx:147
  feedback,     \* GameView.tsx:148
  solvedTerms,  \* GameView.tsx:149
  stats,        \* GameView.tsx:150
  crashed,      \* TRUE once an effect of the mount has thrown (the tree is unmounted)
  lastOp,       \* history: the handler that made the last step, with its input
              \* (a reset and a click on the second button of the form also
              \* with the mode and the status they started from)
  won,          \* history: terms guessed with overall = 100, ever and since the last reset
  fx            \* the inputs and the result of a pure function under check

vars == <<store, todayKey, gameMode, currentEntry, guesses, inputValue, status,
          feedback, solvedTerms, stats, crashed, lastOp, won, fx>>

gameVars == <<store, todayKey, gameMode, currentEntry, guesses, inputValue, status,
              feedback, solvedTerms, stats, crashed, lastOp, won>>

-----------------------------------------------------------------------------
(* Sequences                                                               *)

Range(s) == {s[i] : i \in 1..Len(s)}

Min2(a, b) == IF a <= b THEN a ELSE b

Max2(a, b) == IF a >= b THEN a ELSE b

Includes(s, x) == \E i \in 1..Len(s) : s[i] = x

-----------------------------------------------------------------------------
(* lib/hangul.ts                                                           *)

HANGUL_BASE == 44032

HANGUL_LAST == 55203

VOWEL_COUNT == 21

FINAL_CONSONANT_COUNT == 28

CYCLE == VOWEL_COUNT * FINAL_CONSONANT_COUNT

CHOSEONG ==
  <<
     <<12593>>, <<12594>>, <<12596>>, <<12599>>, <<12600>>, <<12601>>, <<12609>>,
     <<12610>>, <<12611>>, <<12613>>, <<12614>>, <<12615>>, <<12616>>, <<12617>>,
     <<12618>>, <<12619>>, <<12620>>, <<12621>>, <<12622>>
  >>

JUNGSEONG ==
  <<
     <<12623>>, <<12624>>, <<12625>>, <<12626>>, <<12627>>, <<12628>>, <<12629>>,
     <<12630>>, <<12631>>, <<12632>>, <<12633>>, <<12634>>, <<12635>>, <<12636>>,
     <<12637>>, <<12638>>, <<12639>>, <<12640>>, <<12641>>, <<12642>>, <<12643>>
  >>

\* The table with ㄱ where ㄳ belongs.
JONGSEONG_Repeated ==
  <<
     <<>>, <<12593>>, <<12594>>, <<12593>>, <<12596>>, <<12597>>, <<12598>>,
     <<12599>>, <<12601>>, <<12602>>, <<12603>>, <<12604>>, <<12605>>, <<12606>>,
     <<12607>>, <<12608>>, <<12609>>, <<12610>>, <<12612>>, <<12613>>, <<12614>>,
     <<12615>>, <<12616>>, <<12618>>, <<12619>>, <<12620>>, <<12621>>, <<12622>>
  >>

JONGSEONG ==
  <<
     <<>>, <<12593>>, <<12594>>, <<12595>>, <<12596>>, <<12597>>, <<12598>>,
     <<12599>>, <<12601>>, <<12602>>, <<12603>>, <<12604>>, <<12605>>, <<12606>>,
     <<12607>>, <<12608>>, <<12609>>, <<12610>>, <<12612>>, <<12613>>, <<12614>>,
     <<12615>>, <<12616>>, <<12618>>, <<12619>>, <<12620>>, <<12621>>, <<12622>>
  >>

\* The class \s of a JavaScript regular expression, which is also what
\* String.prototype.trim removes at both ends.
IsWhitespace(c) ==
  \/ c \in {9, 10, 11, 12, 13, 32, 160, 5760, 8232, 8233, 8239, 8287, 12288, 65279}
  \/ (c >= 8192 /\ c <= 8202)

\* String.prototype.toLowerCase on one code unit: the ASCII capitals, and the
\* two characters outside ASCII whose lower case holds an ASCII letter
\* (KELVIN SIGN, LATIN CAPITAL LETTER I WITH DOT ABOVE).  Any other character
\* outside the ranges NON_WORD_CHARACTERS keeps stays outside them.
ToLowerCase(c) ==
  IF c >= 65 /\ c <= 90 THEN <<c + 32>>
  ELSE IF c = 8490 THEN <<107>>
  ELSE IF c = 304 THEN <<105, 775>>
  ELSE <<c>>

\* A character the class [ㄱ-ㅎㅏ-ㅣ가-힣a-zA-Z0-9] matches.
IsWordCharacter(c) ==
  \/ (c >= 12593 /\ c <= 12622)
  \/ (c >= 12623 /\ c <= 12643)
  \/ (c >= HANGUL_BASE /\ c <= HANGUL_LAST)
  \/ (c >= 97 /\ c <= 122)
  \/ (c >= 65 /\ c <= 90)
  \/ (c >= 48 /\ c <= 57)

RECURSIVE LowerAll(_)
LowerAll(value) ==
  IF value = <<>> THEN <<>> ELSE ToLowerCase(Head(value)) \o LowerAll(Tail(value))

RECURSIVE StripWhitespace(_)
\* String.prototype.replace(/\s+/g, ''): every whitespace character removed.
StripWhitespace(value) ==
  IF value = <<>> THEN <<>>
  ELSE IF IsWhitespace(Head(value)) THEN StripWhitespace(Tail(value))
  ELSE <<Head(value)>> \o StripWhitespace(Tail(value))

RECURSIVE StripNonWord(_)
\* String.prototype.replace(NON_WORD_CHARACTERS, '').
StripNonWord(value) ==
  IF value = <<>> THEN <<>>
  ELSE IF IsWordCharacter(Head(value)) THEN <<Head(value)>> \o StripNonWord(Tail(value))
  ELSE StripNonWord(Tail(value))

\* sanitizeSequence without its toLowerCase.
sanitizeSequence_KeepsCase(value) == StripNonWord(StripWhitespace(value))

sanitizeSequence(value) == StripNonWord(StripWhitespace(LowerAll(value)))

isHangulSyllable(code) == code >= HANGUL_BASE /\ code <= HANGUL_LAST

choseongIndex(code) == (code - HANGUL_BASE) \div CYCLE

jungseongIndex(code) == ((code - HANGUL_BASE) % CYCLE) \div FINAL_CONSONANT_COUNT

\* The index of the final taken modulo VOWEL_COUNT.
jongseongIndex_ModuloVowels(code) == (code - HANGUL_BASE) % VOWEL_COUNT

jongseongIndex(code) == (code - HANGUL_BASE) % FINAL_CONSONANT_COUNT

\* The callback of the map of disassembleHangul, on one character.
DisassembleChar(code) ==
  IF ~isHangulSyllable(code) THEN <<code>>
  ELSE CHOSEONG[choseongIndex(code) + 1]
         \o JUNGSEONG[jungseongIndex(code) + 1]
         \o JONGSEONG[jongseongIndex(code) + 1]

RECURSIVE disassembleHangul(_)
disassembleHangul(text) ==
  IF text = <<>> THEN <<>>
  ELSE DisassembleChar(Head(text)) \o disassembleHangul(Tail(text))

\* The body of the loop adding a character that is no syllable to combined
\* only.
ProfileOfChar_DropsNonHangul(code) ==
  IF ~isHangulSyllable(code)
  THEN [combined |-> sanitizeSequence(<<code>>), initial |-> <<>>,
        medial |-> <<>>, final |-> <<>>]
  ELSE LET choseong == CHOSEONG[choseongIndex(code) + 1]
           jungseong == JUNGSEONG[jungseongIndex(code) + 1]
           jongseong == JONGSEONG[jongseongIndex(code) + 1]
       IN  [combined |-> choseong \o jungseong \o jongseong,
            initial |-> choseong,
            medial |-> jungseong,
            final |-> IF jongseong # <<>> THEN jongseong ELSE <<>>]

\* The contribution of one character to the four accumulators of
\* createPhonemeProfile (the body of its loop).
ProfileOfChar(code) ==
  IF ~isHangulSyllable(code)
  THEN LET normalized == sanitizeSequence(<<code>>)
       IN  [combined |-> normalized, initial |-> normalized,
            medial |-> normalized, final |-> normalized]
  ELSE LET choseong == CHOSEONG[choseongIndex(code) + 1]
           jungseong == JUNGSEONG[jungseongIndex(code) + 1]
           jongseong == JONGSEONG[jongseongIndex(code) + 1]
       IN  [combined |-> choseong \o jungseong \o jongseong,
            initial |-> choseong,
            medial |-> jungseong,
            final |-> IF jongseong # <<>> THEN jongseong ELSE <<>>]

RECURSIVE Accumulate(_, _)
\* The loop of createPhonemeProfile: acc holds the four accumulators.
Accumulate(text, acc) ==
  IF text = <<>> THEN acc
  ELSE LET p == ProfileOfChar(Head(text))
       IN  Accumulate(Tail(text),
                      [combined |-> acc.combined \o p.combined,
                       initial |-> acc.initial \o p.initial,
                       medial |-> acc.medial \o p.medial,
                       final |-> acc.final \o p.final])

createPhonemeProfile(text) ==
  LET acc == Accumulate(text, [combined |-> <<>>, initial |-> <<>>,
                               medial |-> <<>>, final |-> <<>>])
  IN  [combined |-> sanitizeSequence(acc.combined),
       initial |-> sanitizeSequence(acc.initial),
       medial |-> sanitizeSequence(acc.medial),
       final |-> sanitizeSequence(acc.final)]

normalizeForComparison(text) == createPhonemeProfile(text).combined

RECURSIVE LevInner_IgnoresMatch(_, _, _, _, _)
\* The inner loop whose substitution costs 1 also where the characters agree.
LevInner_IgnoresMatch(a, b, i, previousRow, currentRow) ==
  LET j == Len(currentRow) - 1
  IN  IF j >= Len(b) THEN currentRow
      ELSE LET insertionCost == currentRow[j + 1] + 1
               deletionCost == previousRow[j + 2] + 1
               substitutionCost == previousRow[j + 1] + 1
           IN  LevInner_IgnoresMatch(a, b, i, previousRow,
                        Append(currentRow,
                               Min2(insertionCost, Min2(deletionCost, substitutionCost))))

RECURSIVE LevInner(_, _, _, _, _)
\* The inner loop of levenshteinDistance for row i (0-based): currentRow holds
\* the cells 0..j already computed, and the result is the whole row.
LevInner(a, b, i, previousRow, currentRow) ==
  LET j == Len(currentRow) - 1
  IN  IF j >= Len(b) THEN currentRow
      ELSE LET insertionCost == currentRow[j + 1] + 1
               deletionCost == previousRow[j + 2] + 1
               substitutionCost ==
                 previousRow[j + 1] + (IF a[i + 1] = b[j + 1] THEN 0 ELSE 1)
           IN  LevInner(a, b, i, previousRow,
                        Append(currentRow,
                               Min2(insertionCost, Min2(deletionCost, substitutionCost))))

RECURSIVE LevOuter(_, _, _, _)
\* The outer loop of levenshteinDistance: previousRow after rows 0..i-1.
LevOuter(a, b, i, previousRow) ==
  IF i >= Len(a) THEN previousRow
  ELSE LevOuter(a, b, i + 1, LevInner(a, b, i, previousRow, <<i + 1>>))

\* levenshteinDistance returning a.length where a is empty.
levenshteinDistance_EmptyReturnsOwnLength(a, b) ==
  IF a = b THEN 0
  ELSE IF Len(a) = 0 THEN Len(a)
  ELSE IF Len(b) = 0 THEN Len(a)
  ELSE LevOuter(a, b, 0, [k \in 1..(Len(b) + 1) |-> k - 1])[Len(b) + 1]

levenshteinDistance(a, b) ==
  IF a = b THEN 0
  ELSE IF Len(a) = 0 THEN Len(b)
  ELSE IF Len(b) = 0 THEN Len(a)
  ELSE LevOuter(a, b, 0, [k \in 1..(Len(b) + 1) |-> k - 1])[Len(b) + 1]

\* similarityScore dividing by the smaller length.
similarityScore_MinLength(a, b) ==
  IF Len(a) = 0 /\ Len(b) = 0 THEN [num |-> 1, den |-> 1]
  ELSE IF Len(a) = 0 \/ Len(b) = 0 THEN [num |-> 0, den |-> 1]
  ELSE LET distance == levenshteinDistance(a, b)
           minLength == Min2(Len(a), Len(b))
       IN  [num |-> Max2(0, minLength - distance), den |-> minLength]

\* The value 1 - distance / maxLength as the fraction num / den, whose
\* distance is den - num.
similarityScore(a, b) ==
  IF Len(a) = 0 /\ Len(b) = 0 THEN [num |-> 1, den |-> 1]
  ELSE IF Len(a) = 0 \/ Len(b) = 0 THEN [num |-> 0, den |-> 1]
  ELSE LET distance == levenshteinDistance(a, b)
           maxLength == Max2(Len(a), Len(b))
       IN  [num |-> Max2(0, maxLength - distance), den |-> maxLength]

-----------------------------------------------------------------------------
(* JavaScript numbers: the IEEE 754 binary64 arithmetic of /, -, * and     *)
(* Math.round on the values the program computes.  A natural of any size   *)
(* is the sequence of its digits in base Base, the lowest first, without   *)
(* high zeros; a double is [m, e] of value m * 2^e with m below 2^53 (or   *)
(* m = 2^53, which is a double as well).                                    *)

LimbBits == 13
Base == 8192
Pow2Small == [k \in 0..LimbBits |-> IF k = 0 THEN 1 ELSE IF k = 1 THEN 2
              ELSE IF k = 2 THEN 4 ELSE IF k = 3 THEN 8 ELSE IF k = 4 THEN 16
              ELSE IF k = 5 THEN 32 ELSE IF k = 6 THEN 64 ELSE IF k = 7 THEN 128
              ELSE IF k = 8 THEN 256 ELSE IF k = 9 THEN 512 ELSE IF k = 10 THEN 1024
              ELSE IF k = 11 THEN 2048 ELSE IF k = 12 THEN 4096 ELSE 8192]

RECURSIVE Normalize(_)
Normalize(b) ==
  IF b = <<>> THEN <<>>
  ELSE IF b[Len(b)] = 0 THEN Normalize(SubSeq(b, 1, Len(b) - 1))
  ELSE b

\* The quotient and the remainder of the digits 1..i of b, with r carried in
\* from the digits above, by a divisor below 2^18.
RECURSIVE DivSmallFrom(_, _, _, _)
DivSmallFrom(b, d, i, r) ==
  IF i = 0 THEN [q |-> <<>>, r |-> r]
  ELSE LET cur == r * Base + b[i]
           rest == DivSmallFrom(b, d, i - 1, cur % d)
       IN  [q |-> Append(rest.q, cur \div d), r |-> rest.r]

DivSmall(b, d) ==
  LET result == DivSmallFrom(b, d, Len(b), 0)
  IN  [q |-> Normalize(result.q), r |-> result.r]

\* b * k + carry for the digits i.. of b, with k at most Base.
RECURSIVE MulSmallFrom(_, _, _, _)
MulSmallFrom(b, k, i, carry) ==
  IF i > Len(b) THEN (IF carry = 0 THEN <<>> ELSE <<carry>>)
  ELSE LET cur == b[i] * k + carry
       IN  <<cur % Base>> \o MulSmallFrom(b, k, i + 1, cur \div Base)

MulSmall(b, k) == Normalize(MulSmallFrom(b, k, 1, 0))

RECURSIVE IncrementFrom(_, _)
IncrementFrom(b, i) ==
  IF i > Len(b) THEN <<1>>
  ELSE IF b[i] + 1 < Base THEN <<b[i] + 1>> \o SubSeq(b, i + 1, Len(b))
  ELSE <<0>> \o IncrementFrom(b, i + 1)

Increment(b) == IncrementFrom(b, 1)

\* a - b for a >= b.
RECURSIVE SubtractFrom(_, _, _, _)
SubtractFrom(a, b, i, borrow) ==
  IF i > Len(a) THEN <<>>
  ELSE LET cur == a[i] - (IF i <= Len(b) THEN b[i] ELSE 0) - borrow
       IN  IF cur < 0
           THEN <<cur + Base>> \o SubtractFrom(a, b, i + 1, 1)
           ELSE <<cur>> \o SubtractFrom(a, b, i + 1, 0)

Subtract(a, b) == Normalize(SubtractFrom(a, b, 1, 0))

RECURSIVE BitsOfSmall(_)
BitsOfSmall(n) == IF n = 0 THEN 0 ELSE 1 + BitsOfSmall(n \div 2)

BitLength(b) ==
  IF b = <<>> THEN 0 ELSE (Len(b) - 1) * LimbBits + BitsOfSmall(b[Len(b)])

\* 2^k.
Pow2(k) == [i \in 1..(k \div LimbBits) |-> 0] \o <<Pow2Small[k % LimbBits]>>

\* b with its k lowest bits dropped, and whether one of them was set.
ShiftRight(b, k) ==
  LET limbs == Min2(k \div LimbBits, Len(b))
      kept == DivSmall(SubSeq(b, limbs + 1, Len(b)), Pow2Small[k % LimbBits])
  IN  [q |-> kept.q,
       lost |-> kept.r # 0 \/ \E i \in 1..limbs : b[i] # 0]

IsOdd(b) == b # <<>> /\ b[1] % 2 = 1

\* The value of a natural below 2^26.
ToNumber(b) ==
  IF b = <<>> THEN 0
  ELSE IF Len(b) = 1 THEN b[1]
  ELSE b[1] + Base * b[2]

\* The double nearest to q * 2^e (to a little more than it if sticky), a tie
\* going to the even mantissa; with sticky, q has 55 bits at least.
RoundToDouble(q, e, sticky) ==
  IF BitLength(q) <= 53 THEN [m |-> q, e |-> e]
  ELSE LET k == BitLength(q) - 53
           high == ShiftRight(q, k - 1)
           halved == DivSmall(high.q, 2)
           up == halved.r = 1 /\ (sticky \/ high.lost \/ IsOdd(halved.q))
       IN  [m |-> IF up THEN Increment(halved.q) ELSE halved.q, e |-> e + k]

\* n / d for naturals n and d below Base, d > 0.
Quotient(n, d) ==
  IF n = 0 THEN [m |-> <<>>, e |-> 0]
  ELSE LET scaled == DivSmall(<<0, 0, 0, 0, 0, 0, n>>, d)
       IN  RoundToDouble(scaled.q, 0 - 6 * LimbBits, scaled.r # 0)

\* 1 - x for a double x of 0..1.
OneMinus(x) ==
  IF x.m = <<>> THEN [m |-> <<1>>, e |-> 0]
  ELSE RoundToDouble(Subtract(Pow2(0 - x.e), x.m), x.e, FALSE)

\* x * 100.
Times100(x) == RoundToDouble(MulSmall(x.m, 100), x.e, FALSE)

\* Math.round(x) of a double x of 0..2^26: floor(x + 1/2).
MathRound(x) ==
  IF x.m = <<>> THEN 0
  ELSE IF x.e >= 0 THEN ToNumber(MulSmall(x.m, Pow2Small[x.e]))
  ELSE ToNumber(DivSmall(Increment(ShiftRight(x.m, (0 - x.e) - 1).q), 2).q)

-----------------------------------------------------------------------------
(* views/GameView.tsx: constants and pure functions                        *)

\* data/words.ts: a catalog of three entries with unique terms,
\* 가방, 바다 and 하늘.
WORDS ==
  << [term |-> <<44032, 48169>>, category |-> "category1", hint |-> "hint1"],
     [term |-> <<48148, 45796>>, category |-> "category2", hint |-> "hint2"],
     [term |-> <<54616, 45720>>, category |-> "category3", hint |-> "hint3"] >>

\* toPercent with Math.ceil for Math.round.
toPercent_Ceiling(value) == (100 * value.num + value.den - 1) \div value.den

\* Math.round(value * 100) of the double that similarityScore returns for
\* the fraction value: 1 - distance / maxLength, each operation rounded.
toPercent(value) ==
  MathRound(Times100(OneMinus(Quotient(value.den - value.num, value.den))))

\* scorePhonemes whose overall is the mean of the three other fields.
scorePhonemes_OverallIsMean(guess, answerProfile) ==
  LET profile == createPhonemeProfile(guess)
      initial == toPercent(similarityScore(profile.initial, answerProfile.initial))
      medial == toPercent(similarityScore(profile.medial, answerProfile.medial))
      final == toPercent(similarityScore(profile.final, answerProfile.final))
  IN  [overall |-> (initial + medial + final) \div 3,
       initial |-> initial, medial |-> medial, final |-> final]

scorePhonemes(guess, answerProfile) ==
  LET profile == createPhonemeProfile(guess)
  IN  [overall |-> toPercent(similarityScore(profile.combined, answerProfile.combined)),
       initial |-> toPercent(similarityScore(profile.initial, answerProfile.initial)),
       medial |-> toPercent(similarityScore(profile.medial, answerProfile.medial)),
       final |-> toPercent(similarityScore(profile.final, answerProfile.final))]

\* formatFeedback with > where the code has >=.
formatFeedback_ExclusiveLower(overall) ==
  IF overall = 100 THEN [tone |-> "success", text |-> "exact"]
  ELSE IF overall > 85 THEN [tone |-> "info", text |-> "veryClose"]
  ELSE IF overall > 60 THEN [tone |-> "info", text |-> "goodDirection"]
  ELSE IF overall > 35 THEN [tone |-> "warn", text |-> "far"]
  ELSE [tone |-> "warn", text |-> "low"]

formatFeedback(overall) ==
  IF overall = 100 THEN [tone |-> "success", text |-> "exact"]
  ELSE IF overall >= 85 THEN [tone |-> "info", text |-> "veryClose"]
  ELSE IF overall >= 60 THEN [tone |-> "info", text |-> "goodDirection"]
  ELSE IF overall >= 35 THEN [tone |-> "warn", text |-> "far"]
  ELSE [tone |-> "warn", text |-> "low"]

\* pickNextEntry whose first pool forgets the solved terms.
pickNextEntry_IgnoresSolved(words, previousTerm, solved) ==
  LET fallbackPool == SelectSeq(words, LAMBDA item : item.term # previousTerm)
  IN  IF Len(fallbackPool) = 0 THEN Range(words) ELSE Range(fallbackPool)

\* The entries pickNextEntry can return over the catalog words: Math.random()
\* lies in [0, 1), so Math.floor(Math.random() * n) is any index of the pool.
pickNextEntry(words, previousTerm, solved) ==
  LET unsolvedPool ==
        SelectSeq(words, LAMBDA item :
                    item.term # previousTerm /\ ~Includes(solved, item.term))
      fallbackPool == SelectSeq(words, LAMBDA item : item.term # previousTerm)
  IN  IF Len(unsolvedPool) > 0 THEN Range(unsolvedPool)
      ELSE IF Len(fallbackPool) = 0 THEN Range(words)
      ELSE Range(fallbackPool)

\* lastReset is the ISO string of the instant now.
createDefaultStats(now) ==
  [totalGuesses |-> 0, correctAnswers |-> 0, lastReset |-> now]

(* JSON.  A JavaScript value that JSON.parse returns, or that JSON.stringify  *)
(* takes, is a record tagged with its type.  A stored item is the result of   *)
(* getItem: no item, the empty string, a text that is not JSON, or a text     *)
(* that is the JSON of a value.                                               *)

JUndefined == [t |-> "undefined"]

JNull == [t |-> "null"]

JNum(n) == [t |-> "num", v |-> n]

JStr(s) == [t |-> "str", v |-> s]

JArr(items) == [t |-> "arr", v |-> items]

JObj(fields) == [t |-> "obj", v |-> fields]

NoItem == [kind |-> "missing"]

JsonText(json) == [kind |-> "text", json |-> json]

\* The JavaScript value of a string[] and of a PlayerStats.
TermsValue(terms) == JArr([i \in 1..Len(terms) |-> JStr(terms[i])])

StatsValue(s) ==
  JObj([totalGuesses |-> JNum(s.totalGuesses),
        correctAnswers |-> JNum(s.correctAnswers),
        lastReset |-> JStr(s.lastReset)])

\* JSON.stringify of a value, as a stored item.
Stringify(value) == JsonText(value)

safeParse(value, fallback) ==
  IF value.kind \in {"missing", "empty"} THEN fallback
  ELSE IF value.kind = "garbage" THEN fallback
  ELSE value.json

\* parsed.filter((item) => typeof item === 'string') throws a TypeError unless
\* parsed is an array.
FilterThrows(parsed) == parsed.t # "arr"

RECURSIVE StringItems(_)
StringItems(items) ==
  IF items = <<>> THEN <<>>
  ELSE IF Head(items).t = "str" THEN <<Head(items).v>> \o StringItems(Tail(items))
  ELSE StringItems(Tail(items))

\* storedStats.totalGuesses throws a TypeError when storedStats is null (and
\* only then: a property of a number, a string or an array is undefined).
PropertyThrows(parsed) == parsed.t = "null"

Property(parsed, name) == IF parsed.t = "obj" THEN parsed.v[name] ELSE JUndefined

\* left ?? right, with the stored number or string unwrapped.
Coalesce(left, right) == IF left.t \in {"undefined", "null"} THEN right ELSE left.v

\* The step of the hash with the multiplier 33.
HashStep_Times33(hash, code) ==
  LET lo == hash.lo * 33 + code
  IN  [hi |-> (hash.hi * 33 + (lo \div 65536)) % 65536, lo |-> lo % 65536]

\* hash as the two 16-bit halves of an unsigned 32-bit integer:
\* (hash * 31 + code) >>> 0.
HashStep(hash, code) ==
  LET lo == hash.lo * 31 + code
  IN  [hi |-> (hash.hi * 31 + (lo \div 65536)) % 65536, lo |-> lo % 65536]

RECURSIVE HashOf(_, _)
HashOf(seed, hash) ==
  IF seed = <<>> THEN hash ELSE HashOf(Tail(seed), HashStep(hash, Head(seed)))

HashMod(hash, n) == ((hash.hi % n) * (65536 % n) + (hash.lo % n)) % n

createDailyEntry(seed) ==
  LET hash == HashOf(seed, [hi |-> 0, lo |-> 0])
      index == HashMod(hash, Len(WORDS))
  IN  WORDS[index + 1]

-----------------------------------------------------------------------------
(* views/GameView.tsx: the component                                       *)

\* The largest totalGuesses a session counts up to.
MaxTotal == 3

\* The instants new Date() can return.
MaxTime == 2

Times == 1..MaxTime

\* The calendar dates a session can start on: 2025-01-01 and 2025-01-02.
DateKeys ==
  { <<50, 48, 50, 53, 45, 48, 49, 45, 48, 49>>,
    <<50, 48, 50, 53, 45, 48, 49, 45, 48, 50>> }

\* What the player types: " ", "!", the three terms, and "가 방".
Inputs ==
  { <<32>>, <<33>>, <<44032, 48169>>, <<48148, 45796>>, <<54616, 45720>>,
    <<44032, 32, 48169>> }

\* The largest totalGuesses of a session that plays one long round.
MaxHintGuesses == 21

\* What the player of a long round types, word after word: 가, 개, 갸, ... (the
\* syllables 44032 + 28 * i), which differ in their vowel.
HintInputs == [i \in 1..MaxHintGuesses |-> <<HANGUL_BASE + FINAL_CONSONANT_COUNT * (i - 1)>>]

AllInputs == Inputs \cup Range(HintInputs)

NoFeedback == [tone |-> "none", text |-> "none"]

NoFx == [k |-> "none"]

RECURSIVE TrimStart(_)
TrimStart(value) ==
  IF value # <<>> /\ IsWhitespace(Head(value)) THEN TrimStart(Tail(value)) ELSE value

RECURSIVE TrimEnd(_)
TrimEnd(value) ==
  IF value # <<>> /\ IsWhitespace(value[Len(value)])
  THEN TrimEnd(SubSeq(value, 1, Len(value) - 1))
  ELSE value

\* String.prototype.trim
Trim(value) == TrimEnd(TrimStart(value))

Terms == {WORDS[i].term : i \in 1..Len(WORDS)}

\* useMemo(() => createDailyEntry(todayKey), [todayKey]), for each date key.
DailyEntryOf == [key \in DateKeys |-> createDailyEntry(key)]

dailyEntry == DailyEntryOf[todayKey]

\* useMemo(() => createPhonemeProfile(currentEntry.term), [currentEntry.term]),
\* for each term.
AnswerProfileOf == [term \in Terms |-> createPhonemeProfile(term)]

answerProfile == AnswerProfileOf[currentEntry.term]

\* normalizeForComparison(guess) for the trimmed guess of each input.
NormalizedGuessOf == [raw \in AllInputs |-> normalizeForComparison(Trim(raw))]

\* scorePhonemes(guess, answerProfile) for the trimmed guess of each input and
\* the answer profile of each term.
BreakdownOf ==
  [raw \in AllInputs, term \in Terms |-> scorePhonemes(Trim(raw), AnswerProfileOf[term])]

isDailySolved == Includes(solvedTerms, dailyEntry.term)

totalWords == Len(WORDS)

\* solvedTerms.length of a list of solved terms.
conquestCount(solved) == Len(solved)

\* Math.round((conquestCount / totalWords) * 100).
conquestRate(solved) ==
  IF totalWords = 0 THEN 0
  ELSE MathRound(Times100(Quotient(conquestCount(solved), totalWords)))

remainingCount(solved) == Max2(totalWords - conquestCount(solved), 0)

\* Math.round((stats.correctAnswers / stats.totalGuesses) * 100) of stats
\* whose counters are naturals.
successRate(sessionStats) ==
  IF sessionStats.totalGuesses = 0 THEN 0
  ELSE MathRound(Times100(Quotient(sessionStats.correctAnswers,
                                   sessionStats.totalGuesses)))

\* useMemo(() => [...], [currentEntry]): the three hints of the round.
hints ==
  << [label |-> "length", value |-> Len(currentEntry.term), unlockAt |-> 0],
     [label |-> "category", value |-> currentEntry.category, unlockAt |-> 10],
     [label |-> "hint", value |-> currentEntry.hint, unlockAt |-> 20] >>

\* isUnlocked with > where the code has >=.
isUnlocked_Strict(hint) == Len(guesses) > hint.unlockAt

\* const isUnlocked = guesses.length >= hint.unlockAt, computed by every render.
isUnlocked(hint) == Len(guesses) >= hint.unlockAt

\* The totalGuesses a session counts up to: MaxHintGuesses in the session of
\* one long round, MaxTotal in any other.
GuessCap == IF fx.k = "hints" THEN MaxHintGuesses ELSE MaxTotal

\* The attribute without its daily-mode disjunct.
FormDisabled_StatusOnly == status = "cleared"

\* The disabled attribute without its status === 'cleared'.
FormDisabled_DailySolvedOnly == gameMode = "daily" /\ isDailySolved

\* The disabled attribute of the input and of the submit button.
FormDisabled == status = "cleared" \/ (gameMode = "daily" /\ isDailySolved)

\* recordGuess counting every guess as correct.
recordGuess_CountsEveryGuess(prev, correct) ==
  [totalGuesses |-> prev.totalGuesses + 1,
   correctAnswers |-> prev.correctAnswers + 1,
   lastReset |-> prev.lastReset]

\* The state the updater of recordGuess returns, which it also stores.
recordGuess(prev, correct) ==
  [totalGuesses |-> prev.totalGuesses + 1,
   correctAnswers |-> prev.correctAnswers + (IF correct THEN 1 ELSE 0),
   lastReset |-> prev.lastReset]

\* The updater without its insertion.
MarkSolved_NoInsert(prev, term) == prev

\* The updater replacing the list by the term.
MarkSolved_Replace(prev, term) == IF Includes(prev, term) THEN prev ELSE <<term>>

\* The state the updater of setSolvedTerms in handleSubmit returns.
MarkSolved(prev, term) == IF Includes(prev, term) THEN prev ELSE Append(prev, term)

\* The entries startNewRound(mode) can set, in a render whose dailyEntry is
\* daily and whose solvedTerms is solved, after the entry prev.
StartNewRoundEntries(mode, daily, prev, solved) ==
  IF mode = "daily" THEN {daily} ELSE pickNextEntry(WORDS, prev.term, solved)

\* The mount of GameView on the storage st at the date key and the instant
\* now: the first render (lines 131-150), then its effects in order (lines
\* 152-172, 174-179, 282-285).  first is the index Math.random() gives the
\* initial state of currentEntry, which is read in endless mode only.  The effects belong to the first render, so
\* the startNewRound of line 283 reads that render's solvedTerms, which is
\* [], whatever the load effect has passed to setSolvedTerms.  An effect that
\* throws ends the effects of the component and unmounts the tree.
MountStates(st, key, now, first) ==
  LET mode == IF st.mode = "endless" THEN "endless" ELSE "daily"
      daily == DailyEntryOf[key]
      entry0 == IF mode = "daily" THEN daily ELSE WORDS[first]
      parsedSolved == safeParse(st.solved, JArr(<<>>))
      parsedStats == safeParse(st.stats, StatsValue(createDefaultStats(now)))
      throws == FilterThrows(parsedSolved) \/ PropertyThrows(parsedStats)
      base == [store |-> st, todayKey |-> key, gameMode |-> mode,
               currentEntry |-> entry0, guesses |-> <<>>, inputValue |-> <<>>,
               status |-> "playing", feedback |-> NoFeedback,
               solvedTerms |-> <<>>, stats |-> createDefaultStats(now),
               crashed |-> TRUE]
  IN  IF throws THEN {base}
      ELSE { [base EXCEPT
                !.store = [st EXCEPT !.mode = mode],
                !.currentEntry = e,
                !.solvedTerms = StringItems(parsedSolved.v),
                !.stats =
                  [totalGuesses |-> Coalesce(Property(parsedStats, "totalGuesses"), 0),
                   correctAnswers |-> Coalesce(Property(parsedStats, "correctAnswers"), 0),
                   lastReset |-> Coalesce(Property(parsedStats, "lastReset"), now)],
                !.crashed = FALSE]
             : e \in StartNewRoundEntries(mode, daily, entry0, <<>>) }

EmptyStore == [solved |-> NoItem, stats |-> NoItem, mode |-> "missing"]

\* The instants a mount on the storage st tells apart: all of them, unless the
\* stored stats are a record with a lastReset and the stored solved terms an
\* array, where no value of createDefaultStats or of new Date() (lines 150,
\* 165, 170) survives the load effect.
MountTimes(st) ==
  IF /\ st.stats.kind = "text"
     /\ st.stats.json.t = "obj"
     /\ st.stats.json.v.lastReset.t \notin {"undefined", "null"}
     /\ st.solved.kind = "text" => st.solved.json.t = "arr"
  THEN {1}
  ELSE Times

\* The indices a mount on the storage st tells apart: line 143 reads
\* Math.random() in endless mode only.
MountIndices(st) == IF st.mode = "endless" THEN 1..Len(WORDS) ELSE {1}

NoWins == [ever |-> {}, sinceReset |-> {}]

InitOn(st) ==
  \E key \in DateKeys, now \in MountTimes(st), first \in MountIndices(st) :
    \E m \in MountStates(st, key, now, first) :
      /\ store = m.store
      /\ todayKey = m.todayKey
      /\ gameMode = m.gameMode
      /\ currentEntry = m.currentEntry
      /\ guesses = m.guesses
      /\ inputValue = m.inputValue
      /\ status = m.status
      /\ feedback = m.feedback
      /\ solvedTerms = m.solvedTerms
      /\ stats = m.stats
      /\ crashed = m.crashed
      /\ lastOp = [op |-> "mount"]
      /\ won = NoWins

\* The first session of a browser: nothing is stored yet.
Init == InitOn(EmptyStore) /\ fx = NoFx

\* The page is loaded again, or the game tab of App.tsx is left and entered
\* again: GameView is mounted anew on what is stored.
Reload ==
  \E key \in DateKeys, now \in MountTimes(store), first \in MountIndices(store) :
    \E m \in MountStates(store, key, now, first) :
      /\ store' = m.store
      /\ todayKey' = m.todayKey
      /\ gameMode' = m.gameMode
      /\ currentEntry' = m.currentEntry
      /\ guesses' = m.guesses
      /\ inputValue' = m.inputValue
      /\ status' = m.status
      /\ feedback' = m.feedback
      /\ solvedTerms' = m.solvedTerms
      /\ stats' = m.stats
      /\ crashed' = m.crashed
      /\ lastOp' = [op |-> "mount"]
      /\ UNCHANGED <<won, fx>>

\* resetRoundState without its setGuesses([]).
ResetRoundState_KeepsGuesses ==
  /\ guesses' = guesses
  /\ inputValue' = <<>>
  /\ status' = "playing"
  /\ feedback' = NoFeedback

\* resetRoundState without its setStatus('playing').
ResetRoundState_KeepsStatus ==
  /\ guesses' = <<>>
  /\ inputValue' = <<>>
  /\ status' = status
  /\ feedback' = NoFeedback

\* resetRoundState
ResetRoundState ==
  /\ guesses' = <<>>
  /\ inputValue' = <<>>
  /\ status' = "playing"
  /\ feedback' = NoFeedback

\* The change of mode emptying the solved terms of the session.
SwitchMode_ForgetsSolved(mode) ==
  /\ gameMode' = mode
  /\ store' = [store EXCEPT !.mode = mode]
  /\ ResetRoundState
  /\ currentEntry' \in StartNewRoundEntries(mode, dailyEntry, currentEntry, solvedTerms)
  /\ solvedTerms' = <<>>
  /\ UNCHANGED <<todayKey, stats, crashed, won, fx>>

\* setGameMode(mode) with another mode: the render that follows stores the
\* mode (lines 174-179) and starts a round (lines 282-285) with the
\* solvedTerms of that render.
SwitchMode(mode) ==
  /\ gameMode' = mode
  /\ store' = [store EXCEPT !.mode = mode]
  /\ ResetRoundState
  /\ currentEntry' \in StartNewRoundEntries(mode, dailyEntry, currentEntry, solvedTerms)
  /\ UNCHANGED <<todayKey, solvedTerms, stats, crashed, won, fx>>

\* A click on a mode button (line 399).  setGameMode with the current mode
\* changes no state and renders nothing.
SetGameMode(mode) ==
  /\ ~crashed
  /\ mode # gameMode
  /\ SwitchMode(mode)
  /\ lastOp' = [op |-> "mode", mode |-> mode]

\* A click on the second button of the form (lines 456-464).
NextButton ==
  /\ ~crashed
  /\ IF gameMode = "daily"
     THEN SwitchMode("endless")
     ELSE /\ ResetRoundState
          /\ currentEntry' \in
               StartNewRoundEntries("endless", dailyEntry, currentEntry, solvedTerms)
          /\ UNCHANGED <<store, todayKey, gameMode, solvedTerms, stats, crashed, won, fx>>
  /\ lastOp' = [op |-> "next", from |-> [mode |-> gameMode, status |-> status]]

\* handleSubmit with inputValue = raw, where the guess is not accepted.
Reject(raw, text) ==
  /\ inputValue' = raw
  /\ feedback' = [tone |-> "warn", text |-> text]
  /\ UNCHANGED <<store, todayKey, gameMode, currentEntry, guesses, status,
                 solvedTerms, stats, crashed, won, fx>>

\* handleSubmit with inputValue = raw, where the guess is accepted.
Accept(raw, guess, normalizedGuess) ==
  LET breakdown == BreakdownOf[raw, currentEntry.term]
      newGuess == [value |-> guess, normalized |-> normalizedGuess,
                   breakdown |-> breakdown]
      correct == breakdown.overall = 100
      nextStats == recordGuess(stats, correct)
      nextSolved == MarkSolved(solvedTerms, currentEntry.term)
  IN  /\ stats.totalGuesses < GuessCap
      /\ guesses' = <<newGuess>> \o guesses
      /\ inputValue' = <<>>
      /\ stats' = nextStats
      /\ feedback' = formatFeedback(breakdown.overall)
      /\ status' = IF correct THEN "cleared" ELSE status
      /\ solvedTerms' = IF correct THEN nextSolved ELSE solvedTerms
      /\ store' =
           [store EXCEPT
              !.stats = Stringify(StatsValue(nextStats)),
              !.solved = IF correct /\ nextSolved # solvedTerms
                         THEN Stringify(TermsValue(nextSolved))
                         ELSE @]
      /\ won' = IF correct
                THEN [ever |-> won.ever \cup {currentEntry.term},
                      sinceReset |-> won.sinceReset \cup {currentEntry.term}]
                ELSE won
      /\ UNCHANGED <<todayKey, gameMode, currentEntry, crashed, fx>>

\* handleSubmit without the duplicate check of lines 305-308.
handleSubmit_NoDuplicateCheck(raw) ==
  LET guess == Trim(raw)
      normalizedGuess == NormalizedGuessOf[raw]
  IN  IF guess = <<>> THEN Reject(raw, "empty")
      ELSE IF normalizedGuess = <<>> THEN Reject(raw, "nonword")
      ELSE Accept(raw, guess, normalizedGuess)

\* handleSubmit comparing the raw values in the duplicate check.
handleSubmit_ComparesValue(raw) ==
  LET guess == Trim(raw)
      normalizedGuess == NormalizedGuessOf[raw]
  IN  IF guess = <<>> THEN Reject(raw, "empty")
      ELSE IF normalizedGuess = <<>> THEN Reject(raw, "nonword")
      ELSE IF \E i \in 1..Len(guesses) : guesses[i].value = guess
      THEN Reject(raw, "duplicate")
      ELSE Accept(raw, guess, normalizedGuess)

handleSubmit(raw) ==
  LET guess == Trim(raw)
      normalizedGuess == NormalizedGuessOf[raw]
  IN  IF guess = <<>> THEN Reject(raw, "empty")
      ELSE IF normalizedGuess = <<>> THEN Reject(raw, "nonword")
      ELSE IF \E i \in 1..Len(guesses) : guesses[i].normalized = normalizedGuess
      THEN Reject(raw, "duplicate")
      ELSE Accept(raw, guess, normalizedGuess)

\* The player types raw into the input (line 440) and submits the form
\* (line 434); neither is possible while the input and the button are
\* disabled (lines 442, 451).
Submit(raw) ==
  /\ ~crashed
  /\ ~FormDisabled
  /\ handleSubmit(raw)
  /\ lastOp' = [op |-> "submit", raw |-> raw]

\* handleResetProgress without its startNewRound('daily'): the round in play
\* is kept.
handleResetProgress_KeepsRound(confirmed, now) ==
  /\ ~crashed
  /\ IF ~confirmed
     THEN UNCHANGED <<store, todayKey, gameMode, currentEntry, guesses, inputValue,
                      status, feedback, solvedTerms, stats, crashed, won, fx>>
     ELSE /\ solvedTerms' = <<>>
          /\ stats' = createDefaultStats(now)
          /\ store' = [store EXCEPT !.solved = NoItem, !.stats = NoItem, !.mode = "daily"]
          /\ gameMode' = "daily"
          /\ won' = [won EXCEPT !.sinceReset = {}]
          /\ UNCHANGED <<todayKey, currentEntry, guesses, inputValue, status,
                         feedback, crashed, fx>>
  /\ lastOp' = [op |-> "reset", confirmed |-> confirmed,
                from |-> [mode |-> gameMode, status |-> status]]

\* handleResetProgress, with the answer of window.confirm and the instant of
\* createDefaultStats.
handleResetProgress(confirmed, now) ==
  /\ ~crashed
  /\ IF ~confirmed
     THEN UNCHANGED <<store, todayKey, gameMode, currentEntry, guesses, inputValue,
                      status, feedback, solvedTerms, stats, crashed, won, fx>>
     ELSE /\ solvedTerms' = <<>>
          /\ stats' = createDefaultStats(now)
          /\ store' = [store EXCEPT !.solved = NoItem, !.stats = NoItem, !.mode = "daily"]
          /\ ResetRoundState
          /\ currentEntry' = dailyEntry
          /\ gameMode' = "daily"
          /\ won' = [won EXCEPT !.sinceReset = {}]
          /\ UNCHANGED <<todayKey, crashed, fx>>
  /\ lastOp' = [op |-> "reset", confirmed |-> confirmed,
                from |-> [mode |-> gameMode, status |-> status]]

Next ==
  \/ Reload
  \/ \E mode \in {"daily", "endless"} : SetGameMode(mode)
  \/ NextButton
  \/ \E raw \in Inputs : Submit(raw)
  \/ \E now \in Times : handleResetProgress(TRUE, now)
  \/ handleResetProgress(FALSE, 1)

Spec == Init /\ [][Next]_vars

-----------------------------------------------------------------------------
(* Sessions that start on any stored values                                *)

\* What getItem can return for the solved terms: no item, the empty string, a
\* text that is not JSON, the texts null, 7, {} and "가방", and the texts of the
\* arrays ["가방"], ["가방", 1], ["가방", "가방"], ["사과"] and
\* ["가방", "바다", "하늘", "가방"].
StoredSolvedItems ==
  << NoItem, [kind |-> "empty"], [kind |-> "garbage"],
     JsonText(JNull), JsonText(JNum(7)),
     JsonText(JObj([totalGuesses |-> JUndefined, correctAnswers |-> JUndefined,
                    lastReset |-> JUndefined])),
     JsonText(JStr(<<44032, 48169>>)),
     JsonText(TermsValue(<< <<44032, 48169>> >>)),
     JsonText(JArr(<<JStr(<<44032, 48169>>), JNum(1)>>)),
     JsonText(TermsValue(<< <<44032, 48169>>, <<44032, 48169>> >>)),
     JsonText(TermsValue(<< <<49324, 44284>> >>)),
     JsonText(TermsValue(<< <<44032, 48169>>, <<48148, 45796>>, <<54616, 45720>>,
                            <<44032, 48169>> >>)) >>

\* What getItem can return for the stats: no item, the empty string, a text
\* that is not JSON, the texts null, 7, [] and {}, the text of a record a
\* session has stored, and the texts {"totalGuesses":0,"correctAnswers":1} and
\* {"totalGuesses":null,"correctAnswers":2,"lastReset":null}.
StoredStatsItems ==
  << NoItem, [kind |-> "empty"], [kind |-> "garbage"],
     JsonText(JNull), JsonText(JNum(7)), JsonText(JArr(<<>>)),
     JsonText(JObj([totalGuesses |-> JUndefined, correctAnswers |-> JUndefined,
                    lastReset |-> JUndefined])),
     JsonText(StatsValue([totalGuesses |-> 2, correctAnswers |-> 1, lastReset |-> 1])),
     JsonText(JObj([totalGuesses |-> JNum(0), correctAnswers |-> JNum(1),
                    lastReset |-> JUndefined])),
     JsonText(JObj([totalGuesses |-> JNull, correctAnswers |-> JNum(2),
                    lastReset |-> JNull])) >>

\* What getItem can return for the mode: "missing" for no item, the two modes,
\* and "junk" for any other text.
StoredModeItems == <<"missing", "daily", "endless", "junk">>

InitAnyStore ==
  /\ \E i \in 1..Len(StoredSolvedItems), j \in 1..Len(StoredStatsItems),
        k \in 1..Len(StoredModeItems) :
       InitOn([solved |-> StoredSolvedItems[i], stats |-> StoredStatsItems[j],
               mode |-> StoredModeItems[k]])
  /\ fx = NoFx

\* A session on any stored values, mounted again and again.
SpecLoad == InitAnyStore /\ [][Reload]_vars

-----------------------------------------------------------------------------
(* pickNextEntry on every catalog                                          *)

\* The catalogs: the non-empty sequences of entries with unique terms.
Catalogs ==
  { w \in UNION {[1..n -> Range(WORDS)] : n \in 1..Len(WORDS)} :
      \A i, j \in 1..Len(w) : w[i].term = w[j].term => i = j }

\* The solved lists: the sequences of terms without a repeated term.
SolvedLists ==
  { l \in UNION {[1..n -> Terms] : n \in 0..Len(WORDS)} :
      \A i, j \in 1..Len(l) : l[i] = l[j] => i = j }

InitPick ==
  /\ InitOn(EmptyStore)
  /\ \E w \in Catalogs, p \in Terms \cup {<<>>}, l \in SolvedLists :
       fx = [k |-> "pickNextEntry", words |-> w, previousTerm |-> p, solved |-> l]

Pick ==
  /\ fx.k = "pickNextEntry"
  /\ \E e \in pickNextEntry(fx.words, fx.previousTerm, fx.solved) :
       fx' = [k |-> "picked", words |-> fx.words, previousTerm |-> fx.previousTerm,
              solved |-> fx.solved, result |-> e]
  /\ UNCHANGED gameVars

SpecPick == InitPick /\ [][Pick]_vars

-----------------------------------------------------------------------------
(* createDailyEntry on many seeds                                          *)

\* The longest seed made of the code unit 65535 only.
MaxSeedLen == 6

\* The two decimal digits of n.
Digits2(n) == <<48 + (n \div 10), 48 + (n % 10)>>

\* The date keys 2025-01-01 .. 2025-12-28, as toISOString().slice(0, 10)
\* writes them.
DateSeeds ==
  { <<50, 48, 50, 53, 45>> \o Digits2(m) \o <<45>> \o Digits2(d) :
      m \in 1..12, d \in 1..28 }

\* The seeds: the date keys, the prefixes of a date key (the empty string
\* among them), and the strings of 1..MaxSeedLen code units 65535.
DailySeeds ==
  DateSeeds
    \cup {SubSeq(<<50, 48, 50, 53, 45, 49, 50, 45, 51, 49>>, 1, n) : n \in 0..10}
    \cup {[i \in 1..n |-> 65535] : n \in 1..MaxSeedLen}

InitDaily ==
  /\ InitOn(EmptyStore)
  /\ \E seed \in DailySeeds : fx = [k |-> "createDailyEntry", seed |-> seed]

Daily ==
  /\ fx.k = "createDailyEntry"
  /\ fx' = [k |-> "daily", seed |-> fx.seed,
            hash |-> HashOf(fx.seed, [hi |-> 0, lo |-> 0]),
            result |-> createDailyEntry(fx.seed)]
  /\ UNCHANGED gameVars

SpecDaily == InitDaily /\ [][Daily]_vars

-----------------------------------------------------------------------------
(* formatFeedback on every percentage, and in the game                     *)

InitFeedback ==
  /\ InitOn(EmptyStore)
  /\ \/ fx = NoFx
     \/ \E overall \in 0..100 : fx = [k |-> "formatFeedback", overall |-> overall]

Format ==
  /\ fx.k = "formatFeedback"
  /\ fx' = [k |-> "feedback", overall |-> fx.overall,
            result |-> formatFeedback(fx.overall)]
  /\ UNCHANGED gameVars

\* A call of formatFeedback on a percentage, or a session of the game.
SpecFeedback == InitFeedback /\ [][Format \/ (fx = NoFx /\ Next)]_vars

-----------------------------------------------------------------------------
(* Sessions with a long round                                              *)

InitHints == InitOn(EmptyStore) /\ fx = [k |-> "hints"]

\* The player submits the next word of HintInputs or, once the three hints
\* are unlocked, the term of the round.
SubmitNextWord ==
  \E raw \in (IF Len(guesses) < Len(HintInputs)
              THEN {HintInputs[Len(guesses) + 1]}
              ELSE {})
             \cup (IF isUnlocked(hints[3]) THEN {currentEntry.term} ELSE {}) :
    Submit(raw)

NextHints ==
  \/ SubmitNextWord
  \/ NextButton
  \/ \E mode \in {"daily", "endless"} : SetGameMode(mode)
  \/ handleResetProgress(TRUE, 1)

SpecHints == InitHints /\ [][NextHints]_vars

-----------------------------------------------------------------------------
(* levenshteinDistance and similarityScore on bounded strings              *)

\* The longest string measured.
MaxLen == 3

\* The strings of at most MaxLen of the letters ㄱ and ㅏ.
Strings == UNION {[1..n -> {12593, 12623}] : n \in 0..MaxLen}

\* A session that is left alone while a pure function is under check.
IdleGame ==
  /\ InitOn(EmptyStore)
  /\ todayKey = <<50, 48, 50, 53, 45, 48, 49, 45, 48, 49>>
  /\ stats.lastReset = 1

InitStrings ==
  /\ IdleGame
  /\ \E a \in Strings, b \in Strings, c \in Strings :
       fx = [k |-> "strings", a |-> a, b |-> b, c |-> c]

Measure ==
  /\ fx.k = "strings"
  /\ fx' = [k |-> "measured", a |-> fx.a, b |-> fx.b, c |-> fx.c,
            ab |-> levenshteinDistance(fx.a, fx.b),
            ba |-> levenshteinDistance(fx.b, fx.a),
            bc |-> levenshteinDistance(fx.b, fx.c),
            ac |-> levenshteinDistance(fx.a, fx.c),
            sim |-> similarityScore(fx.a, fx.b),
            self |-> similarityScore(fx.a, fx.a)]
  /\ UNCHANGED gameVars

SpecStrings == InitStrings /\ [][Measure]_vars

-----------------------------------------------------------------------------
(* scorePhonemes on many guesses and targets                               *)

\* The guesses scored: what the player types in the sessions above, and 각,
\* 한글, 가방끈, ㄱㅂ, "ab1", "A방" and "bag".
ScoreGuesses ==
  AllInputs \cup
    { <<44033>>, <<54620, 44544>>, <<44032, 48169, 45128>>, <<12593, 12610>>,
      <<97, 98, 49>>, <<65, 48169>>, <<98, 97, 103>> }

\* The targets: the terms of the catalog, and 한글, 가방끈 and "bag".
ScoreTargets ==
  Terms \cup { <<54620, 44544>>, <<44032, 48169, 45128>>, <<98, 97, 103>> }

InitScore ==
  /\ IdleGame
  /\ \E guess \in ScoreGuesses, target \in ScoreTargets :
       fx = [k |-> "scorePhonemes", guess |-> guess, target |-> target]

Score ==
  /\ fx.k = "scorePhonemes"
  /\ fx' = [k |-> "scored", guess |-> fx.guess, target |-> fx.target,
            breakdown |-> scorePhonemes(fx.guess, createPhonemeProfile(fx.target))]
  /\ UNCHANGED gameVars

SpecScore == InitScore /\ [][Score]_vars

-----------------------------------------------------------------------------
(* The decomposition of every syllable                                     *)

InitSyllables ==
  /\ IdleGame
  /\ \E code \in HANGUL_BASE..HANGUL_LAST : fx = [k |-> "syllable", code |-> code]

Disassemble ==
  /\ fx.k = "syllable"
  /\ fx' = [k |-> "disassembled", code |-> fx.code,
            text |-> disassembleHangul(<<fx.code>>),
            profile |-> createPhonemeProfile(<<fx.code>>)]
  /\ UNCHANGED gameVars

SpecSyllables == InitSyllables /\ [][Disassemble]_vars

-----------------------------------------------------------------------------
(* createPhonemeProfile on bounded texts                                   *)

\* The longest text profiled.
MaxTextLen == 3

\* The characters of the texts: 가, 값, 힣, "A", "z", "1", " ", "!", ㄱ, ㅣ, and
\* the two characters whose lower case holds an ASCII letter.
TextChars == {44032, 44050, 55203, 65, 122, 49, 32, 33, 12593, 12643, 304, 8490}

Texts == UNION {[1..n -> TextChars] : n \in 0..MaxTextLen}

InitProfile ==
  /\ IdleGame
  /\ \E text \in Texts : fx = [k |-> "text", text |-> text]

Profile ==
  /\ fx.k = "text"
  /\ LET profile == createPhonemeProfile(fx.text)
     IN  fx' = [k |-> "profiled", text |-> fx.text, profile |-> profile,
                again |-> [combined |-> sanitizeSequence(profile.combined),
                           initial |-> sanitizeSequence(profile.initial),
                           medial |-> sanitizeSequence(profile.medial),
                           final |-> sanitizeSequence(profile.final)]]
  /\ UNCHANGED gameVars

SpecProfile == InitProfile /\ [][Profile]_vars

-----------------------------------------------------------------------------
(* The derived metrics of the statistics panel                             *)

\* The most guesses of the sessions measured.
MaxGuessCount == 40

\* The statistics and the solved list of a session that made total accepted
\* guesses, correct of them exact, since its last reset: a term is solved by
\* an exact guess (the first one solves a term), and Endless rounds go on
\* after every term is solved.
InitRates ==
  /\ IdleGame
  /\ \E total \in 0..MaxGuessCount :
       \E correct \in 0..total, solved \in SolvedLists :
         /\ Len(solved) <= correct
         /\ correct > 0 => solved # <<>>
         /\ fx = [k |-> "stats",
                  stats |-> [totalGuesses |-> total, correctAnswers |-> correct,
                             lastReset |-> 1],
                  solvedTerms |-> solved]

Rates ==
  /\ fx.k = "stats"
  /\ fx' = [k |-> "rates", stats |-> fx.stats, solvedTerms |-> fx.solvedTerms,
            successRate |-> successRate(fx.stats),
            conquestRate |-> conquestRate(fx.solvedTerms),
            remainingCount |-> remainingCount(fx.solvedTerms)]
  /\ UNCHANGED gameVars

SpecRates == InitRates /\ [][Rates]_vars

-----------------------------------------------------------------------------
(* The overall similarity of long profiles                                 *)

\* The longest combined profile compared.
MaxCombinedLen == 198

\* The guesses of ScoreGuesses, and "BAG" and "가 방".
OverallGuesses == ScoreGuesses \cup { <<66, 65, 71>>, <<44032, 32, 48169>> }

\* A guess and a target to score, or the distance and the longer length of
\* two combined profiles: similarityScore takes nothing else from them.
InitOverall ==
  /\ IdleGame
  /\ \/ \E guess \in OverallGuesses, target \in ScoreTargets :
          fx = [k |-> "guess", guess |-> guess, target |-> target]
     \/ \E maxLength \in 1..MaxCombinedLen :
          \E distance \in 0..maxLength :
            fx = [k |-> "lengths", distance |-> distance, maxLength |-> maxLength]

ScoreOverall ==
  /\ fx.k = "guess"
  /\ fx' = [k |-> "overall", guess |-> fx.guess, target |-> fx.target,
            overall |-> scorePhonemes(fx.guess, createPhonemeProfile(fx.target)).overall]
  /\ UNCHANGED gameVars

Percent ==
  /\ fx.k = "lengths"
  /\ fx' = [k |-> "percent", distance |-> fx.distance, maxLength |-> fx.maxLength,
            percent |-> toPercent([num |-> Max2(0, fx.maxLength - fx.distance),
                                   den |-> fx.maxLength])]
  /\ UNCHANGED gameVars

SpecOverall == InitOverall /\ [][ScoreOverall \/ Percent]_vars

-----------------------------------------------------------------------------
(* Properties                                                              *)

SolvedSet == Range(solvedTerms)

\* The step is a submit of the input raw.
SubmitStep(raw) == lastOp'.op = "submit" /\ lastOp'.raw = raw

\* The three conditions under which handleSubmit refuses the input raw.
Refused(raw) ==
  \/ Trim(raw) = <<>>
  \/ NormalizedGuessOf[raw] = <<>>
  \/ \E i \in 1..Len(guesses) : guesses[i].normalized = NormalizedGuessOf[raw]

\* C1: in a playing round whose input is enabled, a submit of the exact term of
\* the current entry is accepted with overall = 100, sets the status to
\* cleared, and leaves the term in the solved list: appended if it was absent,
\* the list unchanged if it was present.
C1_ExactTermClears ==
  [][SubmitStep(currentEntry.term) =>
       /\ Len(guesses') = Len(guesses) + 1
       /\ Head(guesses').breakdown.overall = 100
       /\ status' = "cleared"
       /\ currentEntry' = currentEntry
       /\ currentEntry.term \in Range(solvedTerms')
       /\ solvedTerms' = IF currentEntry.term \in SolvedSet
                         THEN solvedTerms
                         ELSE Append(solvedTerms, currentEntry.term)]_vars

\* C1 witness: the exact term was submitted after another guess of the round,
\* and the round is cleared.
C1_Witness ==
  /\ lastOp.op = "submit"
  /\ lastOp.raw = currentEntry.term
  /\ status = "cleared"
  /\ Len(guesses) >= 2
  /\ currentEntry.term \in SolvedSet

\* C2: a submit whose trimmed input is empty, whose normalized profile is
\* empty, or whose normalized profile is that of a guess of the round changes
\* neither the guesses, the status, the entry, the mode, the counters, the
\* solved list nor what is stored; it sets a feedback of tone warn.
C2_RefusedSubmitChangesNothing ==
  [][\A raw \in Inputs :
       (SubmitStep(raw) /\ Refused(raw)) =>
         /\ guesses' = guesses
         /\ status' = status
         /\ currentEntry' = currentEntry
         /\ gameMode' = gameMode
         /\ stats' = stats
         /\ solvedTerms' = solvedTerms
         /\ store' = store
         /\ feedback'.tone = "warn"]_vars

\* C2 witness: a guess whose raw value differs from every recorded value was
\* refused as a duplicate.
C2_Witness ==
  /\ lastOp.op = "submit"
  /\ feedback = [tone |-> "warn", text |-> "duplicate"]
  /\ guesses # <<>>
  /\ \A i \in 1..Len(guesses) : guesses[i].value # Trim(lastOp.raw)

\* C3: the guesses of the round have pairwise different normalized values.
C3_NoDuplicateGuess ==
  \A i, j \in 1..Len(guesses) :
    guesses[i].normalized = guesses[j].normalized => i = j

\* C3 witness: two guesses are recorded and a third submit, of a new raw value
\* with a recorded normalized value, was just refused.
C3_Witness ==
  /\ Len(guesses) >= 2
  /\ lastOp.op = "submit"
  /\ feedback.text = "duplicate"
  /\ \A i \in 1..Len(guesses) : guesses[i].value # Trim(lastOp.raw)

\* C4: a submit that is not refused puts one new guess, of the trimmed input,
\* at the front of the guesses and keeps the others in order; totalGuesses
\* grows by 1, and correctAnswers by 1 if the overall of the new guess is 100
\* and by 0 otherwise.
C4_AcceptedSubmitRecordsOneGuess ==
  [][\A raw \in Inputs :
       (SubmitStep(raw) /\ ~Refused(raw)) =>
         /\ guesses' # <<>>
         /\ Tail(guesses') = guesses
         /\ Head(guesses').value = Trim(raw)
         /\ stats'.totalGuesses = stats.totalGuesses + 1
         /\ stats'.correctAnswers =
              stats.correctAnswers
                + (IF Head(guesses').breakdown.overall = 100 THEN 1 ELSE 0)]_vars

\* C4 witness: a wrong guess was just accepted on top of an earlier one.
C4_Witness ==
  /\ lastOp.op = "submit"
  /\ Len(guesses) >= 2
  /\ Head(guesses).value = Trim(lastOp.raw)
  /\ Head(guesses).breakdown.overall < 100
  /\ stats.totalGuesses >= 2
  /\ stats.correctAnswers < stats.totalGuesses

\* C5: correctAnswers is at most totalGuesses, also right after the stats
\* are loaded from any stored value.
C5_CorrectAtMostTotal == stats.correctAnswers <= stats.totalGuesses

\* C6 as stated: a term is in the solved list if and only if some accepted
\* guess, made at any time while its entry was the current one, had
\* overall = 100.
C6_SolvedIffEverWon == SolvedSet = won.ever

\* C6 as amended: a term is in the solved list if and only if some accepted
\* guess made since the last confirmed reset (since the first session when
\* there was none), while its entry was the current one, had overall = 100.
C6_SolvedIffWonSinceReset == SolvedSet = won.sinceReset

\* C6 witness: after a win, a reset and another win, the list was loaded from
\* what is stored.
C6_Witness ==
  /\ lastOp.op = "mount"
  /\ won.sinceReset # {}
  /\ won.ever # won.sinceReset
  /\ SolvedSet = won.sinceReset

\* The stored item is no item, not JSON, or the JSON of a value that is not of
\* the type t.
Unusable(item, t) == item.kind # "text" \/ item.json.t # t

\* C7: a session mounts on any stored values without an error, and an item
\* that is missing, not JSON or of the wrong shape gives the default: no
\* solved term, counters at zero, daily mode.
C7_ToleratesAnyStoredValue ==
  /\ ~crashed
  /\ Unusable(store.solved, "arr") => solvedTerms = <<>>
  /\ Unusable(store.stats, "obj") => (stats.totalGuesses = 0 /\ stats.correctAnswers = 0)
  /\ store.mode \notin {"daily", "endless"} => gameMode = "daily"

\* C8: over a catalog of unique terms pickNextEntry returns an entry of the
\* catalog; its term is not the previous term unless the catalog has one
\* entry; its term is not solved when some entry is neither the previous one
\* nor solved; from the catalog 가방, 바다, 하늘 with 가방 solved and 바다 before, it
\* returns 하늘.
C8_PickNextEntry ==
  fx.k = "picked" =>
    /\ fx.result \in Range(fx.words)
    /\ Len(fx.words) # 1 => fx.result.term # fx.previousTerm
    /\ (\E i \in 1..Len(fx.words) :
          /\ fx.words[i].term # fx.previousTerm
          /\ fx.words[i].term \notin Range(fx.solved))
         => fx.result.term \notin Range(fx.solved)
    /\ (/\ fx.words = WORDS
        /\ fx.solved = << <<44032, 48169>> >>
        /\ fx.previousTerm = <<48148, 45796>>)
         => fx.result.term = <<54616, 45720>>

\* C8 witness: 하늘 was picked from the catalog 가방, 바다, 하늘 with 가방 solved and
\* 바다 before.
C8_Witness ==
  /\ fx.k = "picked"
  /\ fx.words = WORDS
  /\ fx.solved = << <<44032, 48169>> >>
  /\ fx.previousTerm = <<48148, 45796>>
  /\ fx.result.term = <<54616, 45720>>

\* C9: a round that has just started in endless mode, by a mount, a change of
\* mode or the next button, has a target that is not solved, when at least two
\* terms of the catalog are unsolved (so that one of them is not the previous
\* entry either).
C9_EndlessRoundAvoidsSolved ==
  (/\ lastOp.op \in {"mount", "mode", "next"}
   /\ gameMode = "endless"
   /\ Cardinality(SolvedSet) + 2 <= Len(WORDS))
    => currentEntry.term \notin SolvedSet

\* C10: while the status is cleared, or the mode is daily and the daily term is
\* solved, no submit changes the guesses or the counters.
C10_NoGuessWhileDisabled ==
  [][((status = "cleared" \/ (gameMode = "daily" /\ dailyEntry.term \in SolvedSet))
        /\ lastOp'.op = "submit")
       => (guesses' = guesses /\ stats' = stats)]_vars

\* C10 witness: a session mounted in daily mode on a stored list that holds
\* the daily term: the round is playing and the form is disabled.
C10_Witness ==
  /\ lastOp.op = "mount"
  /\ gameMode = "daily"
  /\ status = "playing"
  /\ dailyEntry.term \in SolvedSet
  /\ stats.totalGuesses < MaxTotal

\* What a mount reads as the solved terms from what is stored.
StoredSolvedSet ==
  IF store.solved.kind = "text" /\ store.solved.json.t = "arr"
  THEN Range(StringItems(store.solved.json.v))
  ELSE {}

\* The step is a confirmed reset.
ConfirmedResetStep == lastOp'.op = "reset" /\ lastOp'.confirmed

\* C11: no step other than a confirmed reset (a submit, accepted or refused, a
\* change of mode, a new round, a reset that is not confirmed, a mount on what
\* the session stored) removes a term from the solved terms in memory or from
\* the solved terms that are stored.
C11_SolvedOnlyGrows ==
  [][~ConfirmedResetStep =>
       /\ SolvedSet \subseteq SolvedSet'
       /\ StoredSolvedSet \subseteq StoredSolvedSet']_vars

\* C11 witness: two terms are solved and stored, and a new round has just
\* started by the next button.
C11_Witness ==
  /\ lastOp.op = "next"
  /\ Cardinality(SolvedSet) >= 2
  /\ StoredSolvedSet = SolvedSet

\* C12: a confirmed reset leaves no solved term, both counters at zero, the
\* daily mode, and a playing round without guesses on the daily entry of the
\* session's date; a reset that is not confirmed changes nothing.
C12_ResetStartsOver ==
  [][lastOp'.op = "reset" =>
       IF lastOp'.confirmed
       THEN /\ solvedTerms' = <<>>
            /\ stats'.totalGuesses = 0
            /\ stats'.correctAnswers = 0
            /\ gameMode' = "daily"
            /\ currentEntry' = createDailyEntry(todayKey')
            /\ guesses' = <<>>
            /\ status' = "playing"
       ELSE UNCHANGED <<store, todayKey, gameMode, currentEntry, guesses, inputValue,
                        status, feedback, solvedTerms, stats, crashed>>]_vars

\* C12 witness: a confirmed reset was made from a cleared round of the endless
\* mode on another entry than the daily one, after two guesses.
C12_Witness ==
  /\ lastOp.op = "reset"
  /\ lastOp.confirmed
  /\ lastOp.from = [mode |-> "endless", status |-> "cleared"]
  /\ won.ever # {}
  /\ dailyEntry.term \notin won.ever
  /\ solvedTerms = <<>>
  /\ guesses = <<>>

\* The last step was a submit that handleSubmit accepted.
AcceptedSubmit ==
  lastOp.op = "submit" /\ feedback.text \notin {"empty", "nonword", "duplicate"}

\* The last step changed the counters or the solved terms.
Mutated == AcceptedSubmit \/ (lastOp.op = "reset" /\ lastOp.confirmed)

\* C13: a mount right after an accepted guess, an insertion of a solved term
\* or a confirmed reset restores the counters, lastReset and the solved terms
\* that were in memory; after a reset lastReset is the instant of the reset.
C13_ReloadRestoresMutation ==
  [][(Mutated /\ lastOp'.op = "mount") =>
       (stats' = stats /\ solvedTerms' = solvedTerms)]_vars

\* h := (h * 31 + code) mod 2^32 on the four bytes of h, the lowest first.
FoldStep(h, code) ==
  LET t0 == h[1] * 31 + code
      t1 == h[2] * 31 + (t0 \div 256)
      t2 == h[3] * 31 + (t1 \div 256)
      t3 == h[4] * 31 + (t2 \div 256)
  IN  <<t0 % 256, t1 % 256, t2 % 256, t3 % 256>>

RECURSIVE Fold(_, _)
Fold(seed, h) == IF seed = <<>> THEN h ELSE Fold(Tail(seed), FoldStep(h, Head(seed)))

\* h mod n for the four bytes of h.
FoldMod(h, n) ==
  ( (h[4] % n) * (16777216 % n) + (h[3] % n) * (65536 % n)
      + (h[2] % n) * (256 % n) + (h[1] % n) ) % n

RECURSIVE PlainFold(_, _)
\* h := h * 31 + code in the integers.
PlainFold(seed, h) ==
  IF seed = <<>> THEN h ELSE PlainFold(Tail(seed), h * 31 + Head(seed))

\* C14: createDailyEntry(seed) is WORDS[h mod |WORDS|] for the h that the fold
\* h := (h * 31 + code) mod 2^32 from 0 over the code units of seed gives, so
\* every call with the seed returns this entry; the index is in
\* 0..|WORDS|-1; where the fold stays below 2^31 h is the plain sum.
C14_DailyEntryIsHashModCatalog ==
  fx.k = "daily" =>
    LET h == Fold(fx.seed, <<0, 0, 0, 0>>)
        index == FoldMod(h, Len(WORDS))
    IN  /\ fx.hash.lo = h[2] * 256 + h[1]
        /\ fx.hash.hi = h[4] * 256 + h[3]
        /\ index \in 0..(Len(WORDS) - 1)
        /\ fx.result = WORDS[index + 1]
        /\ (Len(fx.seed) <= 5 /\ \A i \in 1..Len(fx.seed) : fx.seed[i] < 128)
             => fx.hash.hi * 65536 + fx.hash.lo = PlainFold(fx.seed, 0)

\* C14 witness: the seed 2025-12-28, whose sum is far above 2^32, has the hash
\* 275115430 = 4197 * 65536 + 60838 and the entry of index 1.
C14_Witness ==
  /\ fx.k = "daily"
  /\ fx.seed = <<50, 48, 50, 53, 45, 49, 50, 45, 50, 56>>
  /\ fx.hash = [hi |-> 4197, lo |-> 60838]
  /\ fx.result = WORDS[2]

\* The bands of the feedback: the percentages from..to of each, its tone and
\* its message.
FeedbackBands ==
  << [from |-> 100, to |-> 100, tone |-> "success", text |-> "exact"],
     [from |-> 85, to |-> 99, tone |-> "info", text |-> "veryClose"],
     [from |-> 60, to |-> 84, tone |-> "info", text |-> "goodDirection"],
     [from |-> 35, to |-> 59, tone |-> "warn", text |-> "far"],
     [from |-> 0, to |-> 34, tone |-> "warn", text |-> "low"] >>

\* The feedback is that of the one band the percentage overall lies in.
InItsBand(overall, fb) ==
  /\ Cardinality({i \in 1..Len(FeedbackBands) :
                    overall \in FeedbackBands[i].from..FeedbackBands[i].to}) = 1
  /\ \A i \in 1..Len(FeedbackBands) :
       overall \in FeedbackBands[i].from..FeedbackBands[i].to =>
         fb = [tone |-> FeedbackBands[i].tone, text |-> FeedbackBands[i].text]

\* C15: formatFeedback gives 100 the tone success, 85..99 the tone info (very
\* close), 60..84 the tone info (good direction), 35..59 the tone warn (far)
\* and 0..34 the tone warn (low); every percentage 0..100 is in exactly one of
\* these bands; and the feedback shown after an accepted guess is that of the
\* band of the overall of this guess.
C15_FeedbackBands ==
  /\ fx.k = "feedback" => InItsBand(fx.overall, fx.result)
  /\ AcceptedSubmit => InItsBand(Head(guesses).breakdown.overall, feedback)

\* C15 witness: the percentage 85, the lowest of its band, is very close.
C15_Witness ==
  /\ fx.k = "feedback"
  /\ fx.overall = 85
  /\ fx.result = [tone |-> "info", text |-> "veryClose"]

\* The hints that are unlocked, by their labels.
Unlocked == {hints[i].label : i \in {j \in 1..Len(hints) : isUnlocked(hints[j])}}

\* C16: with n guesses in the round the length hint is unlocked, the category
\* hint is unlocked exactly when n >= 10 and the free-text hint exactly when
\* n >= 20; a step that starts a round (the next button, a change of mode, a
\* confirmed reset) leaves the category hint and the free-text hint locked.
C16_HintsUnlockByGuessCount ==
  /\ [](/\ "length" \in Unlocked
        /\ "category" \in Unlocked <=> Len(guesses) >= 10
        /\ "hint" \in Unlocked <=> Len(guesses) >= 20)
  /\ [][(lastOp'.op \in {"next", "mode"} \/ ConfirmedResetStep)
          => Unlocked' = {"length"}]_vars

\* C16 witness: the twentieth guess of a round has just been accepted and the
\* three hints are unlocked.
C16_Witness ==
  /\ lastOp.op = "submit"
  /\ Len(guesses) = 20
  /\ status = "playing"
  /\ Unlocked = {"length", "category", "hint"}

RECURSIVE EditDistance(_, _)
\* The least number of insertions, deletions and substitutions of one
\* character that turn a into b.
EditDistance(a, b) ==
  IF a = <<>> THEN Len(b)
  ELSE IF b = <<>> THEN Len(a)
  ELSE Min2(EditDistance(Tail(a), b) + 1,
            Min2(EditDistance(a, Tail(b)) + 1,
                 EditDistance(Tail(a), Tail(b))
                   + (IF Head(a) = Head(b) THEN 0 ELSE 1)))

EditDistanceOf == [a \in Strings, b \in Strings |-> EditDistance(a, b)]

\* C17: levenshteinDistance(a, b) is the edit distance of a and b, for all
\* strings a and b of at most MaxLen letters, empty or of different lengths
\* as well.
C17_LevenshteinIsEditDistance ==
  fx.k = "measured" => fx.ab = EditDistanceOf[fx.a, fx.b]

\* C17 witness: ㄱㅏ and ㅏㄱㄱ, of different lengths, are at distance 2.
C17_Witness ==
  /\ fx.k = "measured"
  /\ fx.a = <<12593, 12623>>
  /\ fx.b = <<12623, 12593, 12593>>
  /\ fx.ab = 2

\* C18: levenshteinDistance(a, b) is 0 exactly when a = b, it equals
\* levenshteinDistance(b, a), and levenshteinDistance(a, c) is at most
\* levenshteinDistance(a, b) + levenshteinDistance(b, c).
C18_LevenshteinIsMetric ==
  fx.k = "measured" =>
    /\ fx.ab = 0 <=> fx.a = fx.b
    /\ fx.ab = fx.ba
    /\ fx.ac <= fx.ab + fx.bc

\* C18 witness: three different strings that are not empty, where the way
\* to c through b is longer than the direct way.
C18_Witness ==
  /\ fx.k = "measured"
  /\ fx.a # <<>> /\ fx.b # <<>> /\ fx.c # <<>>
  /\ fx.a # fx.b /\ fx.b # fx.c /\ fx.a # fx.c
  /\ Len(fx.a) # Len(fx.b)
  /\ fx.ac < fx.ab + fx.bc

\* C19: similarityScore(a, b) is 1 when a and b are empty, 0 when one of them
\* is, and 1 - levenshteinDistance(a, b) / max(len(a), len(b)) otherwise; it
\* is at least 0 and at most 1; similarityScore(a, a) is 1.
C19_SimilarityScore ==
  fx.k = "measured" =>
    LET maxLength == Max2(Len(fx.a), Len(fx.b))
    IN  /\ fx.sim.den > 0
        /\ 0 <= fx.sim.num
        /\ fx.sim.num <= fx.sim.den
        /\ (fx.a = <<>> /\ fx.b = <<>>) => fx.sim.num = fx.sim.den
        /\ ((fx.a = <<>>) # (fx.b = <<>>)) => fx.sim.num = 0
        /\ (fx.a # <<>> /\ fx.b # <<>>) =>
             fx.sim.num * maxLength = (maxLength - fx.ab) * fx.sim.den
        /\ fx.self.num = fx.self.den

\* C19 witness: two strings of different lengths whose score is 1/3.
C19_Witness ==
  /\ fx.k = "measured"
  /\ Len(fx.a) = 2
  /\ Len(fx.b) = 3
  /\ fx.ab = 2
  /\ fx.sim.num * 3 = fx.sim.den

\* The similarity of a and b as a fraction: 1 for two empty strings, 0 when
\* one is empty, 1 - distance / max(len(a), len(b)) otherwise.
Similarity(a, b) ==
  IF a = <<>> /\ b = <<>> THEN [num |-> 1, den |-> 1]
  ELSE IF a = <<>> \/ b = <<>> THEN [num |-> 0, den |-> 1]
  ELSE [num |-> Max2(Len(a), Len(b)) - EditDistance(a, b),
        den |-> Max2(Len(a), Len(b))]

\* percent is the integer nearest to 100 * value, the upper one of two.
IsPercentOf(percent, value) ==
  /\ 2 * value.den * percent <= 200 * value.num + value.den
  /\ 200 * value.num + value.den < 2 * value.den * (percent + 1)

C21_SyllableIndices ==
  fx.k = "disassembled" =>
    LET offset == fx.code - 44032
        initialIndex == offset \div 588
        medialIndex == (offset % 588) \div 28
        finalIndex == offset % 28
    IN  /\ initialIndex \in 0..18 /\ initialIndex < Len(CHOSEONG)
        /\ medialIndex \in 0..20 /\ medialIndex < Len(JUNGSEONG)
        /\ finalIndex \in 0..27 /\ finalIndex < Len(JONGSEONG)
        /\ JONGSEONG[1] = <<>>
        /\ fx.text = CHOSEONG[initialIndex + 1] \o JUNGSEONG[medialIndex + 1]
                       \o JONGSEONG[finalIndex + 1]
        /\ fx.profile.initial = CHOSEONG[initialIndex + 1]
        /\ fx.profile.medial = JUNGSEONG[medialIndex + 1]
        /\ fx.profile.final = JONGSEONG[finalIndex + 1]
        /\ fx.profile.combined = fx.text
        /\ finalIndex = 0 => (fx.profile.final = <<>> /\ Len(fx.text) = 2)

\* C21 witness: 힣, the last syllable, of indices 18, 20 and 27, is ㅎㅣㅎ.
C21_Witness ==
  /\ fx.k = "disassembled"
  /\ fx.code = 55203
  /\ fx.text = <<12622, 12643, 12622>>
  /\ fx.profile.final = <<12622>>

\* The positions of a glyph in a table, counted from 0.
PositionsIn(table, glyph) == {i - 1 : i \in {j \in 1..Len(table) : table[j] = glyph}}

\* C22: each of the three glyphs of a decomposed syllable (the final being
\* the empty string when there is none) has one position in its table, and
\* 0xAC00 + initial * 588 + medial * 28 + final for these positions is the
\* code of the syllable.
C22_DecompositionInvertible ==
  fx.k = "disassembled" =>
    LET initials == PositionsIn(CHOSEONG, SubSeq(fx.text, 1, 1))
        medials == PositionsIn(JUNGSEONG, SubSeq(fx.text, 2, 2))
        finals == PositionsIn(JONGSEONG, SubSeq(fx.text, 3, Len(fx.text)))
    IN  /\ Cardinality(initials) = 1
        /\ Cardinality(medials) = 1
        /\ Cardinality(finals) = 1
        /\ \A initial \in initials, medial \in medials, final \in finals :
             44032 + initial * 588 + medial * 28 + final = fx.code

\* C22 witness: 값 is decomposed into ㄱㅏㅄ, whose positions 0, 0 and 18 give
\* its code 44050 back.
C22_Witness ==
  /\ fx.k = "disassembled"
  /\ fx.code = 44050
  /\ fx.text = <<12593, 12623, 12612>>
  /\ PositionsIn(JONGSEONG, <<12612>>) = {18}

\* A jamo glyph ㄱ..ㅎ or ㅏ..ㅣ, a lowercase ASCII letter or an ASCII digit.
IsProfileCharacter(c) ==
  \/ c \in 12593..12643
  \/ c \in 97..122
  \/ c \in 48..57

\* What a character gives to a channel, as C23 states it: the syllable of
\* offset = code - 0xAC00 gives its initial, its medial, its final if it has
\* one, and the three together; any other character gives its lower case
\* without what is no letter, digit or jamo, the same to the four channels.
ExpectedOfChar(c) ==
  IF c \in 44032..55203
  THEN LET offset == c - 44032
           initial == CHOSEONG[(offset \div 588) + 1]
           medial == JUNGSEONG[((offset % 588) \div 28) + 1]
           final == IF offset % 28 = 0 THEN <<>> ELSE JONGSEONG[(offset % 28) + 1]
       IN  [combined |-> initial \o medial \o final, initial |-> initial,
            medial |-> medial, final |-> final]
  ELSE LET kept == SelectSeq(ToLowerCase(c), IsProfileCharacter)
       IN  [combined |-> kept, initial |-> kept, medial |-> kept, final |-> kept]

RECURSIVE ExpectedProfile(_)
ExpectedProfile(text) ==
  IF text = <<>>
  THEN [combined |-> <<>>, initial |-> <<>>, medial |-> <<>>, final |-> <<>>]
  ELSE LET first == ExpectedOfChar(Head(text))
           rest == ExpectedProfile(Tail(text))
       IN  [combined |-> first.combined \o rest.combined,
            initial |-> first.initial \o rest.initial,
            medial |-> first.medial \o rest.medial,
            final |-> first.final \o rest.final]

\* C23: the profile of a text is the concatenation, character by character,
\* of what each character gives to each channel; the final channel of a text
\* of syllables without a final consonant is empty.
C23_ProfilePerCharacter ==
  fx.k = "profiled" =>
    /\ fx.profile = ExpectedProfile(fx.text)
    /\ (\A i \in 1..Len(fx.text) :
          fx.text[i] \in 44032..55203 /\ (fx.text[i] - 44032) % 28 = 0)
         => fx.profile.final = <<>>

\* C23 witness: the profile of 값A가 has the combined ㄱㅏㅄaㄱㅏ, the initial
\* ㄱaㄱ, the medial ㅏaㅏ and the final ㅄa.
C23_Witness ==
  /\ fx.k = "profiled"
  /\ fx.text = <<44050, 65, 44032>>
  /\ fx.profile = [combined |-> <<12593, 12623, 12612, 97, 12593, 12623>>,
                   initial |-> <<12593, 97, 12593>>,
                   medial |-> <<12623, 97, 12623>>,
                   final |-> <<12612, 97>>]

\* C24: each channel of a profile holds jamo glyphs, lowercase ASCII letters
\* and ASCII digits only, and sanitizeSequence returns it unchanged.
C24_ProfileIsSanitized ==
  fx.k = "profiled" =>
    /\ \A channel \in {"combined", "initial", "medial", "final"} :
         \A i \in 1..Len(fx.profile[channel]) :
           IsProfileCharacter(fx.profile[channel][i])
    /\ fx.again = fx.profile

\* C24 witness: the profile of " A!" is "a" in the four channels.
C24_Witness ==
  /\ fx.k = "profiled"
  /\ fx.text = <<32, 65, 33>>
  /\ \A channel \in {"combined", "initial", "medial", "final"} :
       fx.profile[channel] = <<97>>

\* round(n / d) for naturals n and d > 0: the nearest integer, a half
\* rounded up.
RoundedQuotient(n, d) == (2 * n + d) \div (2 * d)

\* C25: successRate is 0 when totalGuesses = 0 and
\* round(100 * correctAnswers / totalGuesses) otherwise, and conquestRate is
\* round(100 * |solved set| / |catalog|).  Violated: of 40 guesses with 23
\* correct, 100 * 23 / 40 is 57.5 and rounds to 58, while the code's
\* (23 / 40) * 100 is 57.49999999999999 in doubles and rounds to 57.
C25_RatesAreRounded ==
  fx.k = "rates" =>
    /\ fx.successRate =
         (IF fx.stats.totalGuesses = 0 THEN 0
          ELSE RoundedQuotient(100 * fx.stats.correctAnswers, fx.stats.totalGuesses))
    /\ fx.conquestRate =
         RoundedQuotient(100 * Cardinality(Range(fx.solvedTerms)), Len(WORDS))

\* C27: for a target whose combined profile is shorter than 199 characters
\* the overall of a guess is 100 exactly when the normalized combined profile
\* of the guess equals that of the target: two profiles at a distance of 1 or
\* more never round to 100.
C27_OverallIs100IffEqual ==
  /\ fx.k = "overall" =>
       (fx.overall = 100
          <=> normalizeForComparison(fx.guess) = normalizeForComparison(fx.target))
  /\ fx.k = "percent" => (fx.percent = 100 <=> fx.distance = 0)

\* C27 witness: two combined profiles of 198 characters at distance 1 score 99.
C27_Witness ==
  /\ fx.k = "percent"
  /\ fx.maxLength = 198
  /\ fx.distance = 1
  /\ fx.percent = 99

\* C30: the solved list holds no term twice and terms of the catalog only,
\* so the solved count is at most the catalog size, conquestRate is within
\* 0..100 and the remaining-word count is the catalog size minus the solved
\* count.  Violated right after a load: the load effect keeps every string
\* of the stored array.
C30_SolvedListWithinCatalog ==
  ~crashed =>
    /\ \A i, j \in 1..Len(solvedTerms) : solvedTerms[i] = solvedTerms[j] => i = j
    /\ Range(solvedTerms) \subseteq Terms
    /\ conquestCount(solvedTerms) <= totalWords
    /\ conquestRate(solvedTerms) \in 0..100
    /\ remainingCount(solvedTerms) = totalWords - conquestCount(solvedTerms)

\* The step starts a round: the mount of the session, a change of mode, the
\* second button of the form, or a confirmed reset.
NewRoundStep == lastOp'.op \in {"mount", "mode", "next"} \/ ConfirmedResetStep

\* C26: every start of a round replaces the round: afterwards the guess list
\* is empty (and so are the input and the feedback) and the status is
\* Playing, whatever the guesses and the status were; in the daily mode the
\* entry of the new round is the daily entry.
C26_NewRoundReplacesRound ==
  [][NewRoundStep =>
       /\ guesses' = <<>>
       /\ inputValue' = <<>>
       /\ feedback' = NoFeedback
       /\ status' = "playing"
       /\ gameMode' = "daily" => currentEntry' = createDailyEntry(todayKey')]_vars

\* C26 witness: the second button was clicked on a cleared round of the
\* endless mode that held a guess, and the new round of the endless mode is
\* empty and playing.
C26_Witness ==
  /\ lastOp.op = "next"
  /\ lastOp.from = [mode |-> "endless", status |-> "cleared"]
  /\ gameMode = "endless"
  /\ stats.totalGuesses > 0
  /\ guesses = <<>>
  /\ status = "playing"

\* The positions of the guess list whose guess has an overall of 100.
ExactGuesses == {i \in 1..Len(guesses) : guesses[i].breakdown.overall = 100}

\* C28: the status is Cleared exactly when the guess list holds a guess with
\* overall = 100; the list holds one such guess at most, and it is the most
\* recent guess, at the front of the list.
C28_ClearedIffExactGuess ==
  /\ status = "cleared" <=> ExactGuesses # {}
  /\ ExactGuesses \subseteq {1}

\* C28 witness: a cleared round of two guesses, the first of them (the second
\* of the list) below 100.
C28_Witness ==
  /\ status = "cleared"
  /\ Len(guesses) = 2
  /\ guesses[1].breakdown.overall = 100
  /\ guesses[2].breakdown.overall < 100

\* C29: a round can always be won: while the status is Playing and the form
\* is enabled, whatever the guesses of the round, the term of the current
\* entry is neither empty, nor without a profile, nor the duplicate of a
\* guess, and it scores 100; a submit of it clears the round in one step.
C29_RoundCanBeWon ==
  /\ [](status = "playing" /\ ~FormDisabled /\ ~crashed =>
          /\ ~Refused(currentEntry.term)
          /\ BreakdownOf[currentEntry.term, currentEntry.term].overall = 100)
  /\ [][(status = "playing" /\ SubmitStep(currentEntry.term)) =>
          (status' = "cleared" /\ feedback'.tone = "success")]_vars

\* C29 witness: a round was won by its third guess, after two guesses that
\* were not exact.
C29_Witness ==
  /\ lastOp.op = "submit"
  /\ lastOp.raw = currentEntry.term
  /\ Len(guesses) = 3
  /\ guesses[2].breakdown.overall < 100
  /\ guesses[3].breakdown.overall < 100
  /\ status = "cleared"

=============================================================================
